---------------------------- MODULE Spec2Model ----------------------------
(***************************************************************************)
(* Model of src/index.js: the Telegram bot's message handler               *)
(* (bot.on('message')), its in-memory conversation map userStates, and the *)
(* PIN-keyed Firestore collection FILES_COLLECTION.                        *)
(*                                                                         *)
(* A handler execution is an async function: it runs synchronously up to   *)
(* its next `await`, so every action below is one such segment.  Several   *)
(* executions (tasks) can be suspended at an await at the same time.  A    *)
(* reply is recorded when bot.sendMessage is called; the transport is      *)
(* taken to accept every reply (sendMessage does not throw).  A task ends  *)
(* when nothing but the return is left after its last await.               *)
(*                                                                         *)
(* Texts are sequences of one-character strings, so that startsWith,       *)
(* split, trim, toUpperCase and the number regexp are computed.  The empty *)
(* sequence stands for an absent text (both are falsy in the code).        *)
(***************************************************************************)
EXTENDS Naturals, Sequences, FiniteSets

-----------------------------------------------------------------------------
(* Bounds of the model *)

\* conversations (chat ids 1..NumChats)
NumChats == 2
\* handler executions that can be in flight at the same time
MaxHandlers == 2
\* inbound events delivered in one run
MaxEvents == 3
\* distinct outcomes of the random source of generatePin
NumDraws == 2

\* The number of events in a run of the send-message flow alone.
MaxFlowEvents == 5

Chats == 1..NumChats
Handlers == 1..MaxHandlers

-----------------------------------------------------------------------------
(* Strings *)

characters == <<"A", "B", "C", "D", "E", "F", "G", "H", "I", "J", "K", "L", "M", "N", "O", "P", "Q", "R", "S", "T", "U", "V", "W", "X", "Y", "Z", "0", "1", "2", "3", "4", "5", "6", "7", "8", "9">>
LowerLetters == <<"a", "b", "c", "d", "e", "f", "g", "h", "i", "j", "k", "l", "m", "n", "o", "p", "q", "r", "s", "t", "u", "v", "w", "x", "y", "z">>
Digits == {"0", "1", "2", "3", "4", "5", "6", "7", "8", "9"}
WhiteSpace == {" ", "\t", "\n"}

CMD_START == <<"/", "s", "t", "a", "r", "t">>
CMD_SENDMSG == <<"/", "s", "e", "n", "d", "m", "s", "g">>
CMD_YT_DOWNLOAD == <<"/", "y", "t", "_", "d", "o", "w", "n", "l", "o", "a", "d">>
CMD_DOWNLOAD_URL == <<"/", "d", "o", "w", "n", "l", "o", "a", "d", "_", "u", "r", "l">>
CMD_UPLOAD_FILE == <<"/", "u", "p", "l", "o", "a", "d", "_", "f", "i", "l", "e">>
CMD_GET_FILE == <<"/", "g", "e", "t", "_", "f", "i", "l", "e">>
CMD_ASK_AI == <<"/", "a", "s", "k", "_", "a", "i">>
CMD_CANCEL == <<"/", "c", "a", "n", "c", "e", "l">>
HTTP_PREFIX == <<"h", "t", "t", "p", ":", "/", "/">>
HTTPS_PREFIX == <<"h", "t", "t", "p", "s", ":", "/", "/">>

\* String.prototype.startsWith
StartsWith(s, p) == Len(s) >= Len(p) /\ SubSeq(s, 1, Len(p)) = p

\* text.split(' ')[0]: the text up to its first space
FirstToken(s) ==
    LET spaces == {i \in 1..Len(s) : s[i] = " "}
    IN  IF spaces = {} THEN s
        ELSE SubSeq(s, 1, (CHOOSE i \in spaces : \A j \in spaces : i <= j) - 1)

\* /^\d{10,}$/.test(s)
IsPhoneNumber(s) == Len(s) >= 10 /\ \A i \in 1..Len(s) : s[i] \in Digits

\* String.prototype.trim
Trim(s) ==
    LET solid == {i \in 1..Len(s) : s[i] \notin WhiteSpace}
    IN  IF solid = {} THEN <<>>
        ELSE SubSeq(s, CHOOSE i \in solid : \A j \in solid : i <= j,
                       CHOOSE i \in solid : \A j \in solid : i >= j)

UpperChar(ch) ==
    IF \E i \in 1..Len(LowerLetters) : LowerLetters[i] = ch
    THEN characters[CHOOSE i \in 1..Len(LowerLetters) : LowerLetters[i] = ch]
    ELSE ch

\* String.prototype.toUpperCase
ToUpperCase(s) == [i \in 1..Len(s) |-> UpperChar(s[i])]

\* `text && text.startsWith('/')`
IsCommand(text) == text # <<>> /\ StartsWith(text, <<"/">>)

\* A variant of IsAnswer without the test for a command.
IsAnswerAnyText(text) == text # <<>>

\* `text && !text.startsWith('/')`
IsAnswer(text) == text # <<>> /\ ~StartsWith(text, <<"/">>)

\* `text && (text.startsWith('http://') || text.startsWith('https://'))`
IsUrl(text) == text # <<>> /\ (StartsWith(text, HTTP_PREFIX) \/ StartsWith(text, HTTPS_PREFIX))

-----------------------------------------------------------------------------
(* Program constants *)

STATES == [NONE |-> "none",
           SENDMSG_ASK_NUMBER |-> "sendmsg_ask_number",
           SENDMSG_ASK_MESSAGE |-> "sendmsg_ask_message",
           YT_ASK_URL |-> "yt_ask_url",
           UPLOAD_WAIT_FILE |-> "upload_wait_file",
           GETFILE_ASK_PIN |-> "getfile_ask_pin",
           AI_ASK_QUERY |-> "ai_ask_query",
           DOWNLOAD_ASK_URL |-> "download_ask_url"]

TELEGRAM_FILE_LIMIT == 50 * 1024 * 1024

\* generatePin(length = 6)
PIN_LENGTH == 6


-----------------------------------------------------------------------------
(* Inbound events *)

TextUnknownCommand == <<"/", "h", "e", "l", "p">>
TextNumber == <<"9", "4", "7", "1", "2", "3", "4", "5", "6", "7", "8">>
TextOtherNumber == <<"9", "4", "7", "7", "0", "0", "0", "0", "0", "0", "1">>
TextHello == <<"h", "e", "l", "l", "o">>
TextUrl == <<"h", "t", "t", "p", "s", ":", "/", "/", "x", ".", "i", "o", "/", "a">>

\* The values Math.random() takes in one call of generatePin, as indices into
\* `characters`: outcome k of the random source.
Draw(k) == [i \in 1..PIN_LENGTH |-> (k + 9 * (i - 1)) % Len(characters)]
RandomDraws == {Draw(k) : k \in 0..(NumDraws - 1)}

\* function generatePin(length = 6), on the random indices drawn
generatePin(draw) == [i \in 1..PIN_LENGTH |-> characters[draw[i] + 1]]

AllPins == {generatePin(d) : d \in RandomDraws}

\* A PIN as a user may type it: lower case, with spaces around it.
Typed(pin) ==
    <<" ">> \o [i \in 1..Len(pin) |->
                  IF \E j \in 1..Len(LowerLetters) : characters[j] = pin[i]
                  THEN LowerLetters[CHOOSE j \in 1..Len(LowerLetters) : characters[j] = pin[i]]
                  ELSE pin[i]] \o <<" ">>

CommandTexts == {CMD_START, CMD_SENDMSG, CMD_YT_DOWNLOAD, CMD_DOWNLOAD_URL,
                 CMD_UPLOAD_FILE, CMD_GET_FILE, CMD_ASK_AI, CMD_CANCEL,
                 TextUnknownCommand}

Texts == CommandTexts \cup {TextNumber, TextHello, TextUrl}
               \cup {Typed(p) : p \in AllPins}

\* An absent attachment (`undefined`); an absent field is "" or 0 (falsy).
NoFile == [file_id |-> "", file_unique_id |-> "", file_name |-> "",
           mime_type |-> "", file_size |-> 0]

Present(file) == file # NoFile

DocumentAtLimit == [file_id |-> "doc1", file_unique_id |-> "u1", file_name |-> "a.pdf",
                    mime_type |-> "application/pdf", file_size |-> TELEGRAM_FILE_LIMIT]
VideoOverLimit == [file_id |-> "vid1", file_unique_id |-> "u2", file_name |-> "",
                   mime_type |-> "video/mp4", file_size |-> TELEGRAM_FILE_LIMIT + 1]
PhotoSizes == <<[file_id |-> "ph0", file_unique_id |-> "u4", file_name |-> "",
                 mime_type |-> "", file_size |-> 512],
                [file_id |-> "ph1", file_unique_id |-> "u5", file_name |-> "",
                 mime_type |-> "", file_size |-> 4096]>>

\* msg: chat.id, from.id, text, document, photo, video, audio (lines 247-252).
\* In a private chat from.id is the chat id.
TextMessage(c, text) ==
    [chat |-> c, from |-> c, text |-> text, document |-> NoFile,
     photo |-> <<>>, video |-> NoFile, audio |-> NoFile]

Messages ==
    {TextMessage(c, text) : c \in Chats, text \in Texts}
    \cup {[TextMessage(c, <<>>) EXCEPT !.document = DocumentAtLimit] : c \in Chats}
    \cup {[TextMessage(c, <<>>) EXCEPT !.video = VideoOverLimit] : c \in Chats}
    \cup {[TextMessage(c, <<>>) EXCEPT !.photo = PhotoSizes] : c \in Chats}
    \cup {TextMessage(c, <<>>) : c \in Chats}

\* The events of the send-message flow: its command, two numbers and a message.
FlowMessages ==
    {TextMessage(c, text) :
        c \in Chats, text \in {CMD_SENDMSG, TextNumber, TextOtherNumber, TextHello}}

-----------------------------------------------------------------------------
(* State *)

VARIABLES
    userStates,        \* the Map userStates (line 76)
    FILES_COLLECTION,  \* TRUE iff the Firestore collection handle is not null (line 70)
    geminiModel,       \* TRUE iff geminiModel is not null (lines 50-65)
    files,             \* the documents of the collection: PIN -> file metadata
    tasks,             \* the executions of the message handler that are in flight
    done,              \* the execution that ended in the last step, or NoTask
    delivered,         \* number of inbound events delivered so far
    issued,            \* the file metadata of the PINs replied to uploaders, in order
    accepted           \* per chat, the numbers accepted in ASK_NUMBER, in order

vars == <<userStates, FILES_COLLECTION, geminiModel, files, tasks, done,
          delivered, issued, accepted>>

\* A variant of NumberKey with one key for all chats.
NumberKeyShared(chatId) == <<0, "_number">>

\* The two kinds of key of userStates: chatId, and chatId + '_number'.
StateKey(chatId) == <<chatId, "">>
NumberKey(chatId) == <<chatId, "_number">>

\* Map.prototype.set / delete
MapSet(map, key, value) ==
    [k \in DOMAIN map \cup {key} |-> IF k = key THEN value ELSE map[k]]
MapDelete(map, key) == [k \in DOMAIN map \ {key} |-> map[k]]

\* userStates.get(chatId) || STATES.NONE
StateOf(map, chatId) ==
    IF StateKey(chatId) \in DOMAIN map THEN map[StateKey(chatId)] ELSE STATES.NONE

\* userStates.get(chatId + '_number'), <<>> when undefined
NumberOf(map, chatId) ==
    IF NumberKey(chatId) \in DOMAIN map THEN map[NumberKey(chatId)] ELSE <<>>

\* One entry of a task's output: a reply (bot.sendMessage) or a downstream call.
Reply(id) == [kind |-> "reply", id |-> id, arg |-> <<>>, arg2 |-> <<>>]
ReplyWith(id, arg) == [kind |-> "reply", id |-> id, arg |-> arg, arg2 |-> <<>>]
Call(name, arg, arg2) == [kind |-> "call", id |-> name, arg |-> arg, arg2 |-> arg2]

NoMessage == TextMessage(0, <<>>)

\* What the relay endpoint can answer to the POST of line 130: a network
\* failure, a non-2xx status, or a JSON body with a status field.
NoResponse == [thrown |-> FALSE, ok |-> FALSE, status |-> ""]
ApiResponses ==
    {[thrown |-> FALSE, ok |-> TRUE, status |-> "success"],
     [thrown |-> FALSE, ok |-> TRUE, status |-> "error"],
     [thrown |-> FALSE, ok |-> FALSE, status |-> "500"],
     [thrown |-> TRUE, ok |-> FALSE, status |-> ""]}

NoTask == [pc |-> "idle", msg |-> NoMessage, currentState |-> STATES.NONE,
           out |-> <<>>, number |-> <<>>, pin |-> <<>>, file |-> NoFile,
           fileName |-> "", fileType |-> "", response |-> NoResponse]

Emit(t, entry) == [t EXCEPT !.out = Append(@, entry)]

\* A record already in the collection when the process starts: written by an
\* earlier process, so within the size limit.
OldRecord(pin) == [file_id |-> "old", file_name |-> "old.bin",
                   mime_type |-> "application/octet-stream", file_size |-> 1024,
                   pin |-> pin, uploaded_by |-> 0]

NoFiles == [p \in {} |-> OldRecord(p)]

Init ==
    /\ userStates = [k \in {} |-> ""]
    /\ FILES_COLLECTION \in BOOLEAN
    /\ geminiModel \in BOOLEAN
    /\ files \in IF FILES_COLLECTION /\ geminiModel
                 THEN {NoFiles, [p \in AllPins |-> OldRecord(p)]}
                 ELSE {NoFiles}
    /\ tasks = [h \in Handlers |-> NoTask]
    /\ done = NoTask
    /\ delivered = 0
    /\ issued = <<>>
    /\ accepted = [c \in Chats |-> <<>>]


-----------------------------------------------------------------------------
(* The message handler, bot.on('message', ...), lines 246-557 *)

Goto(t, label) == [t EXCEPT !.pc = label]

\* Lines 474-556: the command handlers and the fallback for NONE.  Every
\* branch ends the execution after its reply.
CommandHandlers(map, t) ==
    LET chatId == t.msg.chat
        text == t.msg.text
        command == FirstToken(text)
    IN  IF IsCommand(text) THEN
            CASE command = CMD_START ->
                    [map |-> map, t |-> Emit(t, Reply("Help"))]
              [] command = CMD_SENDMSG ->
                    [map |-> MapSet(map, StateKey(chatId), STATES.SENDMSG_ASK_NUMBER),
                     t |-> Emit(t, Reply("EnterNumber"))]
              [] command = CMD_YT_DOWNLOAD ->
                    [map |-> MapSet(map, StateKey(chatId), STATES.YT_ASK_URL),
                     t |-> Emit(t, Reply("YtUnavailable"))]
              [] command = CMD_DOWNLOAD_URL ->
                    [map |-> MapSet(map, StateKey(chatId), STATES.DOWNLOAD_ASK_URL),
                     t |-> Emit(t, Reply("EnterUrl"))]
              [] command = CMD_UPLOAD_FILE ->
                    IF ~FILES_COLLECTION
                    THEN [map |-> map, t |-> Emit(t, Reply("UploadUnavailable"))]
                    ELSE [map |-> MapSet(map, StateKey(chatId), STATES.UPLOAD_WAIT_FILE),
                          t |-> Emit(t, Reply("SendFile"))]
              [] command = CMD_GET_FILE ->
                    IF ~FILES_COLLECTION
                    THEN [map |-> map, t |-> Emit(t, Reply("DownloadUnavailable"))]
                    ELSE [map |-> MapSet(map, StateKey(chatId), STATES.GETFILE_ASK_PIN),
                          t |-> Emit(t, Reply("EnterPin"))]
              [] command = CMD_ASK_AI ->
                    IF ~geminiModel
                    THEN [map |-> map, t |-> Emit(t, Reply("AiUnavailable"))]
                    ELSE [map |-> MapSet(map, StateKey(chatId), STATES.AI_ASK_QUERY),
                          t |-> Emit(t, Reply("EnterQuery"))]
              [] command = CMD_CANCEL ->
                    [map |-> MapDelete(MapDelete(map, StateKey(chatId)), NumberKey(chatId)),
                     t |-> Emit(t, Reply("Cancelled"))]
              [] OTHER ->
                    [map |-> map, t |-> Emit(t, Reply("Unrecognized"))]
        ELSE IF t.currentState = STATES.NONE THEN
            IF text # <<>> THEN [map |-> map, t |-> Emit(t, Reply("Unrecognized"))]
            ELSE IF Present(t.msg.document) \/ t.msg.photo # <<>>
                    \/ Present(t.msg.video) \/ Present(t.msg.audio)
            THEN [map |-> map, t |-> Emit(t, Reply("UseUploadFile"))]
            ELSE [map |-> map, t |-> Emit(t, Reply("Unrecognized"))]
        ELSE [map |-> map, t |-> t]

\* After the awaited re-prompt of a conversation branch the execution goes on
\* to line 474; there is something left to do only for a command.
ThenCommands(t) == IF IsCommand(t.msg.text) THEN Goto(t, "commands") ELSE t

\* Lines 307-326: the attachment of the message and the name it is stored under.
SelectFile(msg) ==
    IF Present(msg.document)
    THEN [fileObj |-> msg.document, fileType |-> "document",
          fileName |-> IF msg.document.file_name # "" THEN msg.document.file_name
                       ELSE "uploaded_file"]
    ELSE IF Present(msg.video)
    THEN [fileObj |-> msg.video, fileType |-> "video",
          fileName |-> IF msg.video.file_name # "" THEN msg.video.file_name
                       ELSE "uploaded_file"]
    ELSE IF Present(msg.audio)
    THEN [fileObj |-> msg.audio, fileType |-> "audio",
          fileName |-> IF msg.audio.file_name # "" THEN msg.audio.file_name
                       ELSE "uploaded_file"]
    ELSE IF msg.photo # <<>>
    THEN [fileObj |-> msg.photo[Len(msg.photo)], fileType |-> "photo",
          fileName |-> "photo_" \o msg.photo[Len(msg.photo)].file_unique_id \o ".jpg"]
    ELSE [fileObj |-> NoFile, fileType |-> "document", fileName |-> "uploaded_file"]

\* A variant of UploadTooLarge that compares with >=.
UploadTooLargeAtLimit(fileObj) ==
    fileObj.file_size # 0 /\ fileObj.file_size >= TELEGRAM_FILE_LIMIT

\* Line 334: `fileObj.file_size && fileObj.file_size > TELEGRAM_FILE_LIMIT`
UploadTooLarge(fileObj) == fileObj.file_size # 0 /\ fileObj.file_size > TELEGRAM_FILE_LIMIT

\* A variant of AskNumber that keeps a number that is already pending.
AskNumberKeepPending(map, t) ==
    LET chatId == t.msg.chat
        text == t.msg.text
        number == IF NumberOf(map, chatId) # <<>> THEN NumberOf(map, chatId) ELSE text
    IN  IF IsAnswer(text) THEN
            IF ~IsPhoneNumber(text)
            THEN [map |-> map, t |-> Emit(t, Reply("InvalidNumber"))]
            ELSE [map |-> MapSet(MapSet(map, StateKey(chatId), STATES.SENDMSG_ASK_MESSAGE),
                                 NumberKey(chatId), number),
                  t |-> Emit(t, Reply("EnterMessage"))]
        ELSE [map |-> map, t |-> ThenCommands(Emit(t, Reply("EnterNumberAgain")))]

\* Lines 259-272
AskNumber(map, t) ==
    LET chatId == t.msg.chat
        text == t.msg.text
    IN  IF IsAnswer(text) THEN
            IF ~IsPhoneNumber(text)
            THEN [map |-> map, t |-> Emit(t, Reply("InvalidNumber"))]
            ELSE [map |-> MapSet(MapSet(map, StateKey(chatId), STATES.SENDMSG_ASK_MESSAGE),
                                 NumberKey(chatId), text),
                  t |-> Emit(t, Reply("EnterMessage"))]
        ELSE [map |-> map, t |-> ThenCommands(Emit(t, Reply("EnterNumberAgain")))]

\* Lines 273-279 and 287-294, up to the first await
AskMessage(map, t) ==
    LET number == NumberOf(map, t.msg.chat)
    IN  IF IsAnswer(t.msg.text) THEN
            IF number # <<>>
            THEN [map |-> map,
                  t |-> Goto([Emit(t, Reply("Sending")) EXCEPT !.number = number], "relay")]
            ELSE [map |-> map,
                  t |-> Goto(Emit(t, Reply("NumberOrMessageMissing")), "end_sendmsg")]
        ELSE [map |-> map, t |-> ThenCommands(Emit(t, Reply("EnterMessageAgain")))]

\* Lines 295-298, up to the await
YtAskUrl(map, t) ==
    [map |-> map, t |-> Goto(Emit(t, Reply("YtUnavailable")), "end_conversation")]

\* A variant of DownloadAskUrl that ends the conversation after the re-prompt.
DownloadAskUrlDeleting(map, t) ==
    IF IsUrl(t.msg.text)
    THEN [map |-> map, t |-> Goto(Emit(t, Reply("DownloadStarted")), "download")]
    ELSE [map |-> map, t |-> Goto(Emit(t, Reply("InvalidUrl")), "end_conversation")]

\* Lines 299-305 and line 176, up to the first await
DownloadAskUrl(map, t) ==
    IF IsUrl(t.msg.text)
    THEN [map |-> map, t |-> Goto(Emit(t, Reply("DownloadStarted")), "download")]
    ELSE [map |-> map, t |-> ThenCommands(Emit(t, Reply("InvalidUrl")))]

\* Lines 306-350, up to the first await
UploadWaitFile(map, t) ==
    LET sel == SelectFile(t.msg)
        tf == [t EXCEPT !.file = sel.fileObj, !.fileName = sel.fileName,
                        !.fileType = sel.fileType]
    IN  IF ~Present(sel.fileObj)
        THEN [map |-> map, t |-> Emit(t, Reply("SendValidFile"))]
        ELSE IF UploadTooLarge(sel.fileObj)
        THEN [map |-> map, t |-> Goto(Emit(tf, Reply("UploadTooLarge")), "delete_return")]
        ELSE IF ~FILES_COLLECTION
        THEN [map |-> map, t |-> Goto(Emit(tf, Reply("UploadUnavailable")), "delete_return")]
        ELSE [map |-> map, t |-> Goto(Emit(tf, Reply("Storing")), "generate_pin")]

\* A variant of NormalizePin that trims and keeps the letter case.
NormalizePinKeepCase(text) == Trim(text)

\* Line 382: text.trim().toUpperCase()
NormalizePin(text) == ToUpperCase(Trim(text))

\* Lines 380-390 and 453-455, up to the first await
GetfileAskPin(map, t) ==
    LET pin == NormalizePin(t.msg.text)
    IN  IF IsAnswer(t.msg.text) THEN
            IF ~FILES_COLLECTION
            THEN [map |-> map,
                  t |-> Goto(Emit(t, Reply("DownloadUnavailable")), "delete_return")]
            ELSE [map |-> map,
                  t |-> Goto([Emit(t, ReplyWith("Searching", pin)) EXCEPT !.pin = pin],
                             "get_doc")]
        ELSE [map |-> map, t |-> ThenCommands(Emit(t, Reply("EnterPin")))]

\* Lines 456-469, up to the first await
AiAskQuery(map, t) ==
    IF IsAnswer(t.msg.text) THEN
        IF ~geminiModel
        THEN [map |-> map, t |-> Goto(Emit(t, Reply("AiUnavailable")), "delete_return")]
        ELSE [map |-> map, t |-> Goto(Emit(t, Reply("AiThinking")), "ask_ai")]
    ELSE [map |-> map, t |-> ThenCommands(Emit(t, Reply("EnterQuery")))]

\* Lines 259-474: the branch of the state read at line 254, run to its first
\* await (or, with no conversation active, through the command handlers).
Dispatch(map, t) ==
    CASE t.currentState = STATES.SENDMSG_ASK_NUMBER -> AskNumber(map, t)
      [] t.currentState = STATES.SENDMSG_ASK_MESSAGE -> AskMessage(map, t)
      [] t.currentState = STATES.YT_ASK_URL -> YtAskUrl(map, t)
      [] t.currentState = STATES.DOWNLOAD_ASK_URL -> DownloadAskUrl(map, t)
      [] t.currentState = STATES.UPLOAD_WAIT_FILE -> UploadWaitFile(map, t)
      [] t.currentState = STATES.GETFILE_ASK_PIN -> GetfileAskPin(map, t)
      [] t.currentState = STATES.AI_ASK_QUERY -> AiAskQuery(map, t)
      [] OTHER -> CommandHandlers(map, t)

\* The execution in slot h goes on as t, or has ended when t.pc = "idle".
Settle(h, t) ==
    IF t.pc = "idle"
    THEN /\ tasks' = [tasks EXCEPT ![h] = NoTask]
         /\ done' = Goto(t, "done")
    ELSE /\ tasks' = [tasks EXCEPT ![h] = t]
         /\ done' = NoTask

\* Lines 259-262: the event is a number that the ASK_NUMBER branch accepts.
AcceptsNumber(state, m) ==
    state = STATES.SENDMSG_ASK_NUMBER /\ IsAnswer(m.text) /\ IsPhoneNumber(m.text)

\* An event arrives: lines 246-254 and the code up to the first await, for a
\* run of at most `budget` events.  Chat ids and slots are interchangeable, so
\* the event goes to the first free slot and the n-th event of a run comes
\* from one of the chats 1..n.
Deliver(h, m, budget) ==
    /\ tasks[h].pc = "idle"
    /\ \A g \in Handlers : g < h => tasks[g].pc # "idle"
    /\ delivered < budget
    /\ m.chat <= delivered + 1
    /\ delivered' = delivered + 1
    /\ LET r == Dispatch(userStates,
                         [NoTask EXCEPT !.msg = m,
                                        !.currentState = StateOf(userStates, m.chat)])
       IN  /\ userStates' = r.map
           /\ Settle(h, r.t)
    /\ accepted' = IF AcceptsNumber(StateOf(userStates, m.chat), m)
                   THEN [accepted EXCEPT ![m.chat] = Append(@, m.text)]
                   ELSE accepted
    /\ UNCHANGED <<FILES_COLLECTION, geminiModel, files, issued>>

\* bot.on('message', ...): any event, in a run of at most MaxEvents events.
Receive(h, m) == Deliver(h, m, MaxEvents)

\* Line 474 onwards, reached after the re-prompt of a conversation branch.
Commands(h) ==
    /\ tasks[h].pc = "commands"
    /\ LET r == CommandHandlers(userStates, tasks[h])
       IN  /\ userStates' = r.map
           /\ Settle(h, Goto(r.t, "idle"))
    /\ UNCHANGED <<FILES_COLLECTION, geminiModel, files, delivered, issued, accepted>>


\* A variant of sendMessageViaApi that takes every 2xx answer for a success.
sendMessageViaApiAnyOk(response) == ~response.thrown /\ response.ok

\* async function sendMessageViaApi, lines 124-155, on the endpoint's answer
sendMessageViaApi(response) ==
    IF response.thrown \/ ~response.ok THEN FALSE
    ELSE response.status = "success"

\* Lines 280-286: the relay call and the reply that reports its result.
Relay(h, response) ==
    /\ tasks[h].pc = "relay"
    /\ LET t == tasks[h]
           isSent == sendMessageViaApi(response)
           called == [Emit(t, Call("relay", t.number, t.msg.text))
                         EXCEPT !.response = response]
       IN  Settle(h, Goto(Emit(called, Reply(IF isSent THEN "Sent" ELSE "SendFailed")),
                          "end_sendmsg"))
    /\ UNCHANGED <<userStates, FILES_COLLECTION, geminiModel, files, delivered,
                   issued, accepted>>

\* A variant of EndSendmsg that deletes the number and keeps the state.
EndSendmsgKeepState(h) ==
    /\ tasks[h].pc = "end_sendmsg"
    /\ userStates' = MapDelete(userStates, NumberKey(tasks[h].msg.chat))
    /\ Settle(h, Goto(tasks[h], "idle"))
    /\ UNCHANGED <<FILES_COLLECTION, geminiModel, files, delivered, issued, accepted>>

\* A variant of EndSendmsg that deletes the state and keeps the number.
EndSendmsgKeepNumber(h) ==
    /\ tasks[h].pc = "end_sendmsg"
    /\ userStates' = MapDelete(userStates, StateKey(tasks[h].msg.chat))
    /\ Settle(h, Goto(tasks[h], "idle"))
    /\ UNCHANGED <<FILES_COLLECTION, geminiModel, files, delivered, issued, accepted>>

\* Lines 290-291; nothing is left at line 474 for a text that is no command.
EndSendmsg(h) ==
    /\ tasks[h].pc = "end_sendmsg"
    /\ userStates' = MapDelete(MapDelete(userStates, StateKey(tasks[h].msg.chat)),
                               NumberKey(tasks[h].msg.chat))
    /\ Settle(h, Goto(tasks[h], "idle"))
    /\ UNCHANGED <<FILES_COLLECTION, geminiModel, files, delivered, issued, accepted>>

\* `userStates.delete(chatId); // End conversation` (lines 298, 302, 379, 452,
\* 466), then the command handlers of line 474.
EndConversation(h) ==
    /\ tasks[h].pc = "end_conversation"
    /\ LET r == CommandHandlers(MapDelete(userStates, StateKey(tasks[h].msg.chat)),
                                tasks[h])
       IN  /\ userStates' = r.map
           /\ Settle(h, Goto(r.t, "idle"))
    /\ UNCHANGED <<FILES_COLLECTION, geminiModel, files, delivered, issued, accepted>>

\* `userStates.delete(chatId); return;` after an awaited reply (lines 339-340,
\* 345-346, 385-386, 415-416, 460-461).
DeleteReturn(h) ==
    /\ tasks[h].pc = "delete_return"
    /\ userStates' = MapDelete(userStates, StateKey(tasks[h].msg.chat))
    /\ Settle(h, Goto(tasks[h], "idle"))
    /\ UNCHANGED <<FILES_COLLECTION, geminiModel, files, delivered, issued, accepted>>

\* What fetching a URL can give: an error, or a file of some size which
\* Telegram then accepts or refuses.
FetchResults ==
    {[ok |-> FALSE, fileSize |-> 0, sendOk |-> FALSE],
     [ok |-> TRUE, fileSize |-> TELEGRAM_FILE_LIMIT, sendOk |-> TRUE],
     [ok |-> TRUE, fileSize |-> TELEGRAM_FILE_LIMIT, sendOk |-> FALSE],
     [ok |-> TRUE, fileSize |-> TELEGRAM_FILE_LIMIT + 1, sendOk |-> TRUE]}

\* A variant of FetchedTooLarge with the limit of a local Bot API server.
FetchedTooLargeLocalApi(fileSize) == fileSize > 2000 * 1024 * 1024

\* Lines 215-216: the size of the downloaded file against the 50 MB limit
FetchedTooLarge(fileSize) == fileSize > TELEGRAM_FILE_LIMIT

\* async function downloadFileFromUrl, lines 179-240, after its first reply
downloadFileFromUrl(t, result) ==
    LET called == Emit(t, Call("fetch", t.msg.text, <<>>))
        fetched == [called EXCEPT !.file.file_size = result.fileSize]
    IN  IF ~result.ok THEN Emit(called, Reply("DownloadError"))
        ELSE IF FetchedTooLarge(result.fileSize)
        THEN Emit(fetched, Reply("DownloadTooLarge"))
        ELSE LET sending == Emit(Emit(fetched, Reply("SendingFile")),
                                 Call("sendDocument", t.msg.text, <<>>))
             IN  IF result.sendOk THEN Emit(sending, Reply("FileSent"))
                 ELSE Emit(sending, Reply("DownloadError"))

\* Line 301, from the fetch on.
Download(h, result) ==
    /\ tasks[h].pc = "download"
    /\ Settle(h, Goto(downloadFileFromUrl(tasks[h], result), "end_conversation"))
    /\ UNCHANGED <<userStates, FILES_COLLECTION, geminiModel, files, delivered,
                   issued, accepted>>

\* async function isPinUnique, lines 99-111; readOk: the get() did not throw
isPinUnique(pin, readOk) ==
    IF ~FILES_COLLECTION THEN FALSE
    ELSE IF readOk THEN pin \notin DOMAIN files
    ELSE FALSE

\* One turn of the loop of generateUniquePin, lines 114-118.
GeneratePin(h, draw, readOk) ==
    /\ tasks[h].pc = "generate_pin"
    /\ LET pin == generatePin(draw)
       IN  IF isPinUnique(pin, readOk)
           THEN Settle(h, Goto([tasks[h] EXCEPT !.pin = pin], "set_doc"))
           ELSE Settle(h, Goto(tasks[h], "retry_delay"))
    /\ UNCHANGED <<userStates, FILES_COLLECTION, geminiModel, files, delivered, issued, accepted>>

\* Line 119: the 10 ms delay, then the next turn of the loop.
RetryDelay(h) ==
    /\ tasks[h].pc = "retry_delay"
    /\ Settle(h, Goto(tasks[h], "generate_pin"))
    /\ UNCHANGED <<userStates, FILES_COLLECTION, geminiModel, files, delivered,
                   issued, accepted>>

\* Lines 355-363
fileMetadata(t) ==
    [file_id |-> t.file.file_id,
     file_name |-> t.fileName,
     mime_type |-> IF t.file.mime_type # "" THEN t.file.mime_type
                   ELSE "application/octet-stream",
     file_size |-> t.file.file_size,
     pin |-> t.pin,
     uploaded_by |-> t.msg.from]

\* DocumentReference.set: creates the document or overwrites it
DocSet(docs, pin, data) == [p \in DOMAIN docs \cup {pin} |-> IF p = pin THEN data ELSE docs[p]]

\* A variant of SetDoc that does not wait for the write: the PIN is replied
\* whether or not the record is stored.
SetDocNotAwaited(h, writeOk) ==
    /\ tasks[h].pc = "set_doc"
    /\ LET t == tasks[h]
       IN  /\ files' = IF writeOk THEN DocSet(files, t.pin, fileMetadata(t)) ELSE files
           /\ issued' = Append(issued, fileMetadata(t))
           /\ Settle(h, Goto(Emit(t, ReplyWith("PinIssued", t.pin)), "end_conversation"))
    /\ UNCHANGED <<userStates, FILES_COLLECTION, geminiModel, delivered, accepted>>

\* Lines 365-378: the write, then the PIN reply, or the catch block.
SetDoc(h, writeOk) ==
    /\ tasks[h].pc = "set_doc"
    /\ LET t == tasks[h]
       IN  IF writeOk
           THEN /\ files' = DocSet(files, t.pin, fileMetadata(t))
                /\ issued' = Append(issued, fileMetadata(t))
                /\ Settle(h, Goto(Emit(t, ReplyWith("PinIssued", t.pin)), "end_conversation"))
           ELSE /\ files' = files
                /\ issued' = issued
                /\ Settle(h, Goto(Emit(t, Reply("UploadFailed")), "end_conversation"))
    /\ UNCHANGED <<userStates, FILES_COLLECTION, geminiModel, delivered, accepted>>

\* Lines 393-419 and 444-451: the lookup and what it decides.
GetDoc(h, readOk) ==
    /\ tasks[h].pc = "get_doc"
    /\ LET t == tasks[h]
       IN  IF ~readOk
           THEN Settle(h, Goto(Emit(t, Reply("LookupError")), "end_conversation"))
           ELSE IF t.pin \notin DOMAIN files
           THEN Settle(h, Goto(Emit(t, Reply("InvalidPin")), "end_conversation"))
           ELSE LET data == files[t.pin]
                    found == [t EXCEPT !.file = [NoFile EXCEPT !.file_id = data.file_id,
                                                               !.file_size = data.file_size],
                                       !.fileName = IF data.file_name # "" THEN data.file_name
                                                    ELSE "downloaded_file"]
                IN  IF data.file_id = ""
                    THEN Settle(h, Goto(Emit(found, Reply("FileIdMissing")), "delete_return"))
                    ELSE IF data.file_size > TELEGRAM_FILE_LIMIT
                    THEN Settle(h, Goto(Emit(found, Reply("FileTooLarge")), "delete_return"))
                    ELSE Settle(h, Goto(Emit(found, Reply("Downloading")), "send_doc"))
    /\ UNCHANGED <<userStates, FILES_COLLECTION, geminiModel, files, delivered,
                   issued, accepted>>

\* Lines 422-442: the file is sent by its file_id; sendOk: Telegram took it.
SendDoc(h, sendOk) ==
    /\ tasks[h].pc = "send_doc"
    /\ LET t == tasks[h]
           sent == Emit(t, [Call("sendDocument", t.pin, <<>>) EXCEPT !.id = t.file.file_id])
       IN  Settle(h, Goto(Emit(sent, Reply(IF sendOk THEN "FileSent" ELSE "TelegramError")),
                          "end_conversation"))
    /\ UNCHANGED <<userStates, FILES_COLLECTION, geminiModel, files, delivered,
                   issued, accepted>>

\* async function askGeminiAi, lines 158-172; aiOk: generateContent did not throw
askGeminiAi(aiOk) ==
    IF ~geminiModel THEN "AiUnavailable"
    ELSE IF aiOk THEN "AiResponse"
    ELSE "AiError"

\* Lines 464-465
AskAi(h, aiOk) ==
    /\ tasks[h].pc = "ask_ai"
    /\ LET t == tasks[h]
       IN  Settle(h, Goto(Emit(Emit(t, Call("complete", t.msg.text, <<>>)),
                               Reply(askGeminiAi(aiOk))),
                          "end_conversation"))
    /\ UNCHANGED <<userStates, FILES_COLLECTION, geminiModel, files, delivered,
                   issued, accepted>>

-----------------------------------------------------------------------------
(* Specifications *)

Step(h) ==
    \/ Commands(h)
    \/ \E response \in ApiResponses : Relay(h, response)
    \/ EndSendmsg(h)
    \/ EndConversation(h)
    \/ DeleteReturn(h)
    \/ \E result \in FetchResults : Download(h, result)
    \/ \E draw \in RandomDraws, readOk \in BOOLEAN : GeneratePin(h, draw, readOk)
    \/ RetryDelay(h)
    \/ \E writeOk \in BOOLEAN : SetDoc(h, writeOk)
    \/ \E readOk \in BOOLEAN : GetDoc(h, readOk)
    \/ \E sendOk \in BOOLEAN : SendDoc(h, sendOk)
    \/ \E aiOk \in BOOLEAN : AskAi(h, aiOk)

Next ==
    \/ \E h \in Handlers, m \in Messages : Receive(h, m)
    \/ \E h \in Handlers : Step(h)

Spec == Init /\ [][Next]_vars

\* The event loop runs every continuation whose awaited promise has settled.
FairSpec == Spec /\ \A h \in Handlers : WF_vars(Step(h))


\* bot.on('message', ...) on the events of the send-message flow, in a run of
\* at most MaxFlowEvents events.
ReceiveFlow(h, m) == Deliver(h, m, MaxFlowEvents)

\* The continuations an execution of the send-message flow can be waiting in.
FlowStep(h) ==
    \/ Commands(h)
    \/ \E response \in ApiResponses : Relay(h, response)
    \/ EndSendmsg(h)

FlowNext ==
    \/ \E h \in Handlers, m \in FlowMessages : ReceiveFlow(h, m)
    \/ \E h \in Handlers : FlowStep(h)

FlowSpec == Init /\ [][FlowNext]_vars

-----------------------------------------------------------------------------
(* Properties *)

\* An execution has just ended; `done` holds what it was given and what it did.
Ended == done.pc = "done"

InFlight == {tasks[h] : h \in {g \in Handlers : tasks[g].pc # "idle"}}

Calls(t) == {i \in 1..Len(t.out) : t.out[i].kind = "call"}

QuestionStates == {STATES.SENDMSG_ASK_NUMBER, STATES.SENDMSG_ASK_MESSAGE,
                   STATES.DOWNLOAD_ASK_URL, STATES.UPLOAD_WAIT_FILE,
                   STATES.GETFILE_ASK_PIN, STATES.AI_ASK_QUERY}

\* C1: no two uploads are replied the same PIN, however their handlers interleave.
C1_PinsDistinct ==
    \A i, j \in 1..Len(issued) : i # j => issued[i].pin # issued[j].pin

Issuing(h) == tasks[h].pc \in {"generate_pin", "retry_delay"}

\* C2: when every PIN the generator can produce is taken, PIN issuance gives up
\* after a bounded number of attempts, so the upload handler leaves the loop.
C2_BoundedRetry ==
    \A h \in Handlers : (Issuing(h) /\ AllPins \subseteq DOMAIN files) ~> ~Issuing(h)

\* C3: once an upload of (size S, file reference F) has been replied PIN P, the
\* lookup that the ASK_PIN branch does for P, typed in lower case with spaces
\* around it or as replied, finds a record with size S and file reference F.
C3_RoundTrip ==
    \A i \in 1..Len(issued) : \A text \in {issued[i].pin, Typed(issued[i].pin)} :
        /\ IsAnswer(text)
        /\ NormalizePin(text) \in DOMAIN files
        /\ files[NormalizePin(text)].file_size = issued[i].file_size
        /\ files[NormalizePin(text)].file_id = issued[i].file_id

UploadOf(t) == t.currentState = STATES.UPLOAD_WAIT_FILE /\ Present(SelectFile(t.msg).fileObj)

\* C4: in WAIT_UPLOAD_FILE an attachment of exactly 50 MiB is taken for binding
\* (and is bound under the PIN replied when the store accepts the write), one of
\* 50 MiB + 1 byte is rejected, no PIN is drawn for it and its flow ends in
\* NONE; no stored record is ever larger than 50 MiB.
C4_SizeBoundary ==
    /\ \A p \in DOMAIN files : files[p].file_size <= TELEGRAM_FILE_LIMIT
    /\ \A t \in InFlight \cup {done} :
         /\ (UploadOf(t) /\ SelectFile(t.msg).fileObj.file_size = TELEGRAM_FILE_LIMIT + 1)
               => /\ t.out = <<Reply("UploadTooLarge")>>
                  /\ t.pin = <<>>
                  /\ t.pc \in {"delete_return", "done"}
                  /\ t.pc = "done" => StateOf(userStates, t.msg.chat) = STATES.NONE
         /\ (UploadOf(t) /\ SelectFile(t.msg).fileObj.file_size = TELEGRAM_FILE_LIMIT
                /\ FILES_COLLECTION)
               => /\ t.out[1] = Reply("Storing")
                  /\ t.pc \in {"generate_pin", "retry_delay", "set_doc",
                              "end_conversation", "done"}
                  /\ \A i \in 1..Len(t.out) :
                        t.out[i].id = "PinIssued"
                           => \E k \in 1..Len(issued) :
                                 /\ issued[k].pin = t.out[i].arg
                                 /\ issued[k].file_size = TELEGRAM_FILE_LIMIT
                                 /\ issued[k].file_id = SelectFile(t.msg).fileObj.file_id

\* C4 witness: an upload of 50 MiB + 1 byte has just been rejected, and one of
\* exactly 50 MiB has been bound to a PIN.
C4_Witness ==
    /\ Ended /\ UploadOf(done)
    /\ done.file.file_size = TELEGRAM_FILE_LIMIT + 1
    /\ \E k \in 1..Len(issued) :
          /\ issued[k].file_size = TELEGRAM_FILE_LIMIT
          /\ issued[k].pin \in DOMAIN files

\* The chat whose event is handled in a step: the chat of the task that moved
\* or, when no task is left in flight by the step, of the execution that ended.
Acting(b) ==
    \/ \E h \in Handlers :
          /\ tasks'[h] # tasks[h]
          /\ b = IF tasks[h].pc # "idle" THEN tasks[h].msg.chat ELSE tasks'[h].msg.chat
    \/ /\ tasks' = tasks
       /\ done'.pc = "done"
       /\ b = done'.msg.chat

SessionOf(map, b) ==
    <<StateKey(b) \in DOMAIN map, StateOf(map, b),
      NumberKey(b) \in DOMAIN map, NumberOf(map, b)>>

\* C5: a step taken for an event of one conversation leaves the state and the
\* pending number of every other conversation as they were.
C5_StateIsolation ==
    [][\A b \in Chats :
          SessionOf(userStates', b) # SessionOf(userStates, b) => Acting(b)]_vars

\* C5 witness: two conversations are in different question states, one of them
\* with a pending number, and an event of the first has just been handled.
C5_Witness ==
    /\ Ended /\ done.msg.chat = 1
    /\ StateOf(userStates, 1) = STATES.SENDMSG_ASK_MESSAGE
    /\ NumberOf(userStates, 1) # <<>>
    /\ StateOf(userStates, 2) \in QuestionStates \ {STATES.SENDMSG_ASK_MESSAGE}

\* C6: after /cancel has been handled, in whatever state, the session is in
\* NONE and holds no pending number (so a second /cancel changes nothing).
C6_Cancellation ==
    (Ended /\ IsCommand(done.msg.text) /\ FirstToken(done.msg.text) = CMD_CANCEL)
        => /\ StateOf(userStates, done.msg.chat) = STATES.NONE
           /\ NumberOf(userStates, done.msg.chat) = <<>>

\* The state a flow-starting command leads to, when its capability is there.
Target(command) ==
    CASE command = CMD_SENDMSG -> STATES.SENDMSG_ASK_NUMBER
      [] command = CMD_DOWNLOAD_URL -> STATES.DOWNLOAD_ASK_URL
      [] command = CMD_UPLOAD_FILE -> STATES.UPLOAD_WAIT_FILE
      [] command = CMD_GET_FILE -> STATES.GETFILE_ASK_PIN
      [] command = CMD_ASK_AI -> STATES.AI_ASK_QUERY
      [] OTHER -> STATES.NONE

Available(command) ==
    CASE command \in {CMD_UPLOAD_FILE, CMD_GET_FILE} -> FILES_COLLECTION
      [] command = CMD_ASK_AI -> geminiModel
      [] OTHER -> TRUE

\* C7: a flow-starting command handled in a question state, with its capability
\* available, causes no downstream call and leaves the session in its target.
C7_CommandsWin ==
    (/\ Ended /\ done.currentState \in QuestionStates
     /\ IsCommand(done.msg.text)
     /\ FirstToken(done.msg.text) \in {CMD_SENDMSG, CMD_DOWNLOAD_URL, CMD_UPLOAD_FILE,
                                       CMD_GET_FILE, CMD_ASK_AI}
     /\ Available(FirstToken(done.msg.text)))
        => /\ Calls(done) = {}
           /\ StateOf(userStates, done.msg.chat) = Target(FirstToken(done.msg.text))

GetFileInAskMessage ==
    /\ Ended /\ done.currentState = STATES.SENDMSG_ASK_MESSAGE
    /\ IsCommand(done.msg.text) /\ FirstToken(done.msg.text) = CMD_GET_FILE
    /\ FILES_COLLECTION

\* C8: /get_file handled in ASK_MESSAGE, with the file store available, leaves
\* the session in ASK_PIN, and the relay is not called with that text.
C8_OutOfTurnCommand ==
    GetFileInAskMessage
        => /\ StateOf(userStates, done.msg.chat) = STATES.GETFILE_ASK_PIN
           /\ \A i \in 1..Len(done.out) : done.out[i].id # "relay"

\* C8 witness: /get_file has just been handled in ASK_MESSAGE.
C8_Witness == GetFileInAskMessage /\ done.msg.text = CMD_GET_FILE

\* C9: /sendmsg in NONE gives the enter-number prompt and ASK_NUMBER; a text of
\* ten or more digits in ASK_NUMBER gives the enter-message prompt, ASK_MESSAGE
\* and that number pending; a text that is no command in ASK_MESSAGE gives one
\* relay call with the pending number and the text, then the success
\* confirmation exactly when the relay answers success, and NONE.
C9_SendMessageFlow ==
    /\ (Ended /\ done.currentState = STATES.NONE /\ done.msg.text = CMD_SENDMSG)
          => /\ done.out = <<Reply("EnterNumber")>>
             /\ StateOf(userStates, done.msg.chat) = STATES.SENDMSG_ASK_NUMBER
    /\ (Ended /\ done.currentState = STATES.SENDMSG_ASK_NUMBER
          /\ IsAnswer(done.msg.text) /\ IsPhoneNumber(done.msg.text))
          => /\ done.out = <<Reply("EnterMessage")>>
             /\ StateOf(userStates, done.msg.chat) = STATES.SENDMSG_ASK_MESSAGE
             /\ NumberOf(userStates, done.msg.chat) = done.msg.text
    /\ (Ended /\ done.currentState = STATES.SENDMSG_ASK_MESSAGE
          /\ IsAnswer(done.msg.text) /\ done.number # <<>>)
          => /\ done.out = <<Reply("Sending"),
                             Call("relay", done.number, done.msg.text),
                             Reply(IF ~done.response.thrown /\ done.response.ok
                                      /\ done.response.status = "success"
                                   THEN "Sent" ELSE "SendFailed")>>
             /\ StateOf(userStates, done.msg.chat) = STATES.NONE

\* C9 witness: the message "hello" for the number 94712345678 has been relayed
\* with success and its handler has ended.
C9_Witness ==
    /\ Ended /\ done.currentState = STATES.SENDMSG_ASK_MESSAGE
    /\ done.msg.text = TextHello /\ done.number = TextNumber
    /\ done.response.status = "success"
    /\ done.out[Len(done.out)] = Reply("Sent")

\* C10: after /start or an unrecognized command has been handled, in whatever
\* state, the session is in NONE.
C10_CommandResets ==
    (/\ Ended /\ IsCommand(done.msg.text)
     /\ FirstToken(done.msg.text) \notin {CMD_SENDMSG, CMD_YT_DOWNLOAD, CMD_DOWNLOAD_URL,
                                          CMD_UPLOAD_FILE, CMD_GET_FILE, CMD_ASK_AI,
                                          CMD_CANCEL})
        => StateOf(userStates, done.msg.chat) = STATES.NONE

\* C11: a pending number is stored only while the session is in ASK_MESSAGE:
\* every transition out of ASK_MESSAGE clears it.
C11_PendingLifetime ==
    \A c \in Chats :
        NumberOf(userStates, c) # <<>>
            => StateOf(userStates, c) = STATES.SENDMSG_ASK_MESSAGE

\* The reply of a guarded command whose capability is not there.
UnavailableReply(command) ==
    CASE command = CMD_UPLOAD_FILE -> Reply("UploadUnavailable")
      [] command = CMD_GET_FILE -> Reply("DownloadUnavailable")
      [] OTHER -> Reply("AiUnavailable")

\* C12: /upload_file and /get_file without the file store, and /ask_ai without
\* the AI capability, reply 'unavailable' and leave the session in NONE; a
\* session is in WAIT_UPLOAD_FILE or ASK_PIN only when the store is available,
\* and in ASK_AI_QUERY only when the AI capability is.
C12_AvailabilityGuard ==
    /\ \A c \in Chats :
          /\ StateOf(userStates, c) \in {STATES.UPLOAD_WAIT_FILE, STATES.GETFILE_ASK_PIN}
                => FILES_COLLECTION
          /\ StateOf(userStates, c) = STATES.AI_ASK_QUERY => geminiModel
    /\ (/\ Ended /\ IsCommand(done.msg.text)
        /\ FirstToken(done.msg.text) \in {CMD_UPLOAD_FILE, CMD_GET_FILE, CMD_ASK_AI}
        /\ ~Available(FirstToken(done.msg.text)))
          => /\ done.out[Len(done.out)] = UnavailableReply(FirstToken(done.msg.text))
             /\ StateOf(userStates, done.msg.chat) = STATES.NONE

\* The positions of an execution between the start of the answer step of its
\* flow (the downstream call) and the end of that step.
AnswerSteps == {"relay", "download", "generate_pin", "retry_delay", "set_doc",
                "get_doc", "send_doc", "ask_ai"}

\* C13: for one conversation, no two executions are in the answer step of the
\* same flow at the same time (so a twice-delivered ASK_MESSAGE answer is
\* relayed at most once).
C13_MutualExclusion ==
    \A g, h \in Handlers :
        (/\ g # h
         /\ tasks[g].pc \in AnswerSteps /\ tasks[h].pc \in AnswerSteps
         /\ tasks[g].msg.chat = tasks[h].msg.chat)
            => tasks[g].currentState # tasks[h].currentState

\* C14: a record, once in the store under a PIN, stays there with every field
\* as it was written.
C14_RecordImmutable ==
    [][\A p \in DOMAIN files : p \in DOMAIN files' /\ files'[p] = files[p]]_vars

\* An event that is re-prompted: a malformed number, a malformed URL, or no
\* attachment where one is awaited.
RePrompted(t) ==
    \/ /\ t.currentState = STATES.SENDMSG_ASK_NUMBER
       /\ IsAnswer(t.msg.text) /\ ~IsPhoneNumber(t.msg.text)
    \/ /\ t.currentState = STATES.DOWNLOAD_ASK_URL
       /\ IsAnswer(t.msg.text) /\ ~IsUrl(t.msg.text)
    \/ /\ t.currentState = STATES.UPLOAD_WAIT_FILE
       /\ ~IsCommand(t.msg.text) /\ ~Present(SelectFile(t.msg).fileObj)

\* C15: the step that ends the handling of a re-prompted event leaves every
\* session state and pending number as it was; a session enters ASK_MESSAGE
\* only from ASK_NUMBER, by the handling of a text of ten or more digits,
\* which becomes the pending number.
C15_RePromptKeepsState ==
    [][/\ (done'.pc = "done" /\ RePrompted(done')) => userStates' = userStates
       /\ \A c \in Chats :
             (/\ StateOf(userStates', c) = STATES.SENDMSG_ASK_MESSAGE
              /\ StateOf(userStates, c) # STATES.SENDMSG_ASK_MESSAGE)
                => /\ StateOf(userStates, c) = STATES.SENDMSG_ASK_NUMBER
                   /\ done'.pc = "done" /\ done'.msg.chat = c
                   /\ done'.currentState = STATES.SENDMSG_ASK_NUMBER
                   /\ IsPhoneNumber(done'.msg.text)
                   /\ NumberOf(userStates', c) = done'.msg.text]_vars

\* C15 witness: "hello" has just been re-prompted in ASK_NUMBER and the session
\* is still in ASK_NUMBER.
C15_Witness ==
    /\ Ended /\ done.currentState = STATES.SENDMSG_ASK_NUMBER
    /\ done.msg.text = TextHello
    /\ done.out = <<Reply("InvalidNumber")>>
    /\ StateOf(userStates, done.msg.chat) = STATES.SENDMSG_ASK_NUMBER

\* C16: the handling of a text that is no command in ASK_MESSAGE calls the
\* relay once, with the pending number and that text, and ends with the
\* session in NONE and no pending number, whatever the relay answered.
C16_AskMessageCompletion ==
    (Ended /\ done.currentState = STATES.SENDMSG_ASK_MESSAGE /\ IsAnswer(done.msg.text))
        => /\ done.number # <<>>
           /\ Cardinality(Calls(done)) = 1
           /\ \A i \in Calls(done) :
                 done.out[i] = Call("relay", done.number, done.msg.text)
           /\ StateOf(userStates, done.msg.chat) = STATES.NONE
           /\ NumberOf(userStates, done.msg.chat) = <<>>

\* C16 witness: the relay has failed with a network error and the handling of
\* the message has ended.
C16_Witness ==
    /\ Ended /\ done.currentState = STATES.SENDMSG_ASK_MESSAGE
    /\ IsAnswer(done.msg.text)
    /\ done.response.thrown
    /\ done.out[Len(done.out)] = Reply("SendFailed")

DownloadOf(t) == t.currentState = STATES.DOWNLOAD_ASK_URL /\ IsUrl(t.msg.text)

C19_YtDisabled ==
    /\ (Ended /\ IsCommand(done.msg.text) /\ FirstToken(done.msg.text) = CMD_YT_DOWNLOAD)
          => /\ done.out[Len(done.out)] = Reply("YtUnavailable")
             /\ StateOf(userStates, done.msg.chat) = STATES.NONE
    /\ \A t \in InFlight \cup {done} : t.currentState # STATES.YT_ASK_URL

\* The downstream capabilities an execution has invoked, by the place of the
\* invocation in its output: the relay, the URL fetch and the AI completion are
\* recorded as calls; PIN issue-and-bind follows the 'storing' reply (lines
\* 350-353) and PIN resolve the 'searching' reply (lines 391-393).
Downstream(t) ==
    {i \in 1..Len(t.out) :
        \/ t.out[i].kind = "call" /\ t.out[i].id \in {"relay", "fetch", "complete"}
        \/ t.out[i].kind = "reply" /\ t.out[i].id \in {"Storing", "Searching"}}

\* C20: the handling of one event invokes at most one downstream capability,
\* and the handling of a command invokes none.
C20_OneDownstreamAction ==
    \A t \in InFlight \cup {done} :
        /\ Cardinality(Downstream(t)) <= 1
        /\ IsCommand(t.msg.text) => Downstream(t) = {}

\* C20 witness: a question has been answered by the AI completion, the one
\* downstream call of its handling.
C20_Witness ==
    /\ Ended /\ done.currentState = STATES.AI_ASK_QUERY
    /\ \E i \in Downstream(done) : done.out[i] = Call("complete", done.msg.text, <<>>)
    /\ done.out[Len(done.out)] = Reply("AiResponse")

\* C21: a session in ASK_MESSAGE has a pending number of ten or more digits,
\* in every interleaving of the handlers of its conversation; no execution
\* takes the 'number or message missing' branch of lines 287-289.
C21_AskMessageHasNumber ==
    /\ \A c \in Chats :
          StateOf(userStates, c) = STATES.SENDMSG_ASK_MESSAGE
             => IsPhoneNumber(NumberOf(userStates, c))
    /\ \A t \in InFlight \cup {done} :
          /\ \A i \in 1..Len(t.out) : t.out[i].id # "NumberOrMessageMissing"
          /\ (t.currentState = STATES.SENDMSG_ASK_MESSAGE /\ IsAnswer(t.msg.text))
                => IsPhoneNumber(t.number)

\* C21 witness: a session is in ASK_MESSAGE while a handler of its conversation
\* is awaiting the relay.
C21_Witness ==
    \E h \in Handlers :
        /\ tasks[h].pc = "relay"
        /\ StateOf(userStates, tasks[h].msg.chat) = STATES.SENDMSG_ASK_MESSAGE
        /\ NumberOf(userStates, tasks[h].msg.chat) = TextNumber

Last(seq) == seq[Len(seq)]

C23_NoClobbering ==
    [][\A h \in Handlers :
          LET t == tasks[h]
              c == t.msg.chat
          IN  (/\ t.pc \in {"end_sendmsg", "end_conversation"}
               /\ Downstream(t) # {}
               /\ tasks'[h] # t
               /\ StateOf(userStates, c) \in QuestionStates
               /\ StateOf(userStates, c) # t.currentState)
                  => StateOf(userStates', c) = StateOf(userStates, c)]_vars

PinReplies(t) == {i \in 1..Len(t.out) : t.out[i].id = "PinIssued"}

\* C24: in the upload flow a PIN is replied only by the step that has written
\* the record under that PIN, and the record is then in the store; when the
\* write fails nothing is stored, no PIN is replied and the upload-failure
\* reply is given; either way the handling ends with the session in NONE.
\* (PIN issuance itself has no failing outcome in generateUniquePin: it
\* retries, see C2.)
C24_PinAfterWrite ==
    [][/\ \A h \in Handlers :
             LET t == tasks[h]
                 u == tasks'[h]
             IN  /\ PinReplies(u) \ PinReplies(t) # {} => t.pc = "set_doc"
                 /\ (t.pc = "set_doc" /\ u # t)
                       => /\ u.pc = "end_conversation"
                          /\ Last(u.out).id \in {"PinIssued", "UploadFailed"}
                          /\ Last(u.out).id = "PinIssued"
                                => /\ Last(u.out).arg = t.pin
                                   /\ t.pin \in DOMAIN files'
                                   /\ files'[t.pin] = fileMetadata(t)
                          /\ Last(u.out).id = "UploadFailed"
                                => /\ files' = files
                                   /\ PinReplies(u) = {}
       /\ (done'.pc = "done" /\ UploadOf(done') /\ done'.pin # <<>>)
             => /\ StateOf(userStates', done'.msg.chat) = STATES.NONE
                /\ Cardinality(PinReplies(done')) <= 1
                /\ Last(done'.out).id \in {"PinIssued", "UploadFailed"}
                /\ Last(done'.out).id = "UploadFailed" => PinReplies(done') = {}]_vars

\* C24 witness: the write of an upload has failed, the failure has been
\* replied and the handling has ended with nothing stored under the PIN.
C24_Witness ==
    /\ Ended /\ UploadOf(done)
    /\ done.pin # <<>> /\ done.pin \notin DOMAIN files
    /\ Last(done.out) = Reply("UploadFailed")
    /\ StateOf(userStates, done.msg.chat) = STATES.NONE

=============================================================================
